---- MODULE Spec2Model ----
(***************************************************************************)
(* Model of caddy-auth-jwt: the key backends (pkg/backends/backend.go),    *)
(* the Caddyfile parser that builds the access list                       *)
(* (parseCaddyfileTokenValidator) and TokenValidatorOptions.Clone.        *)
(*                                                                         *)
(* Five specifications share the variables; each one drives one part of    *)
(* the program and leaves the other parts in their initial state:          *)
(*   SpecResolve  the two ProvideKey resolvers                             *)
(*   SpecImport   FetchKeysURL                                             *)
(*   SpecRule     one allow/deny line of arbitrary shape after a prefix    *)
(*   SpecList     whole configurations of short directives + evaluation    *)
(*   SpecOpts     TokenValidatorOptions objects, Clone and Metadata writes *)
(***************************************************************************)
EXTENDS Integers, Sequences, FiniteSets, TLC

VARIABLES
    hmacBackend,    \* *SecretKeyTokenBackend, or NoBackend
    rsaBackend,     \* *RSAKeyTokenBackend, or NoBackend
    token,          \* the *jwtlib.Token last handed to ProvideKey
    keyResult,      \* what that ProvideKey call returned
    jwksDoc,        \* the response FetchKeysURL last received
    fetchResult,    \* what that FetchKeysURL call returned
    p,              \* the AuthProvider under construction in the parser
    defaultDenyACL, \* the parser's local defaultDenyACL
    pc,             \* the parser's position: "parsing", "done", "error"
    consumed,       \* the directives the parser has read from the Caddyfile
    handler,        \* what parseCaddyfileTokenValidator returned
    evalInput,      \* the claim set and request last evaluated
    decision,       \* the outcome of that evaluation
    objs,           \* the TokenValidatorOptions objects, by address
    heap,           \* the Metadata maps, by address
    optsOp          \* the last operation on the options objects

keyVars   == <<hmacBackend, rsaBackend, token, keyResult>>
fetchVars == <<jwksDoc, fetchResult>>
parseVars == <<p, defaultDenyACL, pc, consumed, handler>>
evalVars  == <<evalInput, decision>>
optsVars  == <<objs, heap, optsOp>>
vars == <<hmacBackend, rsaBackend, token, keyResult, jwksDoc, fetchResult,
          p, defaultDenyACL, pc, consumed, handler, evalInput, decision,
          objs, heap, optsOp>>

(***************************************************************************)
(* Bounds                                                                  *)
(***************************************************************************)
NumKeyPairs == 2      \* distinct RSA key pairs
MaxKeys == 3          \* entries of a key-set document
MaxArgs == 5          \* arguments of the arbitrary allow/deny line
MaxPrefix == 1        \* short directives before the arbitrary line
MaxDirectives == 4    \* directives of a configuration of short directives
MaxClones == 2        \* clones of the options object

(***************************************************************************)
(* pkg/backends/backend.go: key material and the two resolvers             *)
(***************************************************************************)
defaultKeyID == "0"

MinSecretLength == 16

NoBackend == [kind |-> "none"]

\* a value of the secrets map, or a key handed back by ProvideKey
NoKey == [kind |-> "nil", n |-> 0]
RSAPrivateKey(n) == [kind |-> "*rsa.PrivateKey", n |-> n]
RSAPublicKey(n) == [kind |-> "*rsa.PublicKey", n |-> n]
HMACSecret(n) == [kind |-> "[]byte", n |-> n]
\* a value of another dynamic type stored in the map[string]interface{}
OtherValue == [kind |-> "other", n |-> 0]

KeyPairs == 1..NumKeyPairs
StoreValues == {RSAPrivateKey(n) : n \in KeyPairs} \cup
               {RSAPublicKey(n) : n \in KeyPairs} \cup {OtherValue}
StoreKeyIDs == {defaultKeyID, "k1"}
Stores == UNION {[ids -> StoreValues] : ids \in SUBSET StoreKeyIDs}

\* token.Method: the dynamic type of the signing method
SigningMethods == {"*SigningMethodHMAC", "*SigningMethodRSA",
                   "*SigningMethodRSAPSS", "*SigningMethodECDSA", "nil"}
\* token.Header["kid"]: absent, a string, or a value of another JSON type
NoKid == [typ |-> "absent", val |-> ""]
StringKid(s) == [typ |-> "string", val |-> s]
OtherKid(s) == [typ |-> "number", val |-> s]
HeaderKids == {NoKid} \cup {StringKid(s) : s \in {defaultKeyID, "k1", "k2"}}
              \cup {OtherKid(s) : s \in {"0", "7"}}
Tokens == [Method : SigningMethods, kid : HeaderKids]
NoToken == [Method |-> "nil", kid |-> NoKid]

NoErr == "nil"
ErrInvalidSecretLength == "ErrInvalidSecretLength"
ErrUnexpectedSigningMethod == "ErrUnexpectedSigningMethod"
ErrUnexpectedKID == "ErrUnexpectedKID"
ErrNoRSAKeyFound == "ErrNoRSAKeyFound"

\* a return of ProvideKey: the key, the error, and the source line returning
Return(key, err, line) == [key |-> key, err |-> err, line |-> line]
NoResult == [backend |-> "none", key |-> NoKey, err |-> NoErr, line |-> 0]

\* the type switch of lines 82-87 and 97-102: the public key of val, or
\* NoKey when val is of neither RSA type
PublicKeyOf(val) ==
    CASE val.kind = "*rsa.PrivateKey" -> RSAPublicKey(val.n)
      [] val.kind = "*rsa.PublicKey" -> val
      [] OTHER -> NoKey

SecretProvideKey(b, tok) ==
    IF tok.Method # "*SigningMethodHMAC"
    THEN Return(NoKey, ErrUnexpectedSigningMethod, 55)
    ELSE Return(HMACSecret(b.secret), NoErr, 57)

\* the header lookup of line 80: token.Header["kid"].(string)
KidIsString(tok) == tok.kid.typ = "string"

\* the fallback of lines 95-105
RSADefaultKey(b) ==
    IF defaultKeyID \in DOMAIN b.secrets /\ PublicKeyOf(b.secrets[defaultKeyID]) # NoKey
    THEN Return(PublicKeyOf(b.secrets[defaultKeyID]), NoErr,
                IF b.secrets[defaultKeyID].kind = "*rsa.PrivateKey" THEN 99 ELSE 101)
    ELSE Return(NoKey, ErrNoRSAKeyFound, 105)

\* RSAKidKey with a miss answered from the default key
RSAKidKeyFallback(b, kid) ==
    IF kid \in DOMAIN b.secrets /\ PublicKeyOf(b.secrets[kid]) # NoKey
    THEN Return(PublicKeyOf(b.secrets[kid]), NoErr,
                IF b.secrets[kid].kind = "*rsa.PrivateKey" THEN 84 ELSE 86)
    ELSE RSADefaultKey(b)

\* the lookup of lines 80-93
RSAKidKey(b, kid) ==
    IF kid \in DOMAIN b.secrets /\ PublicKeyOf(b.secrets[kid]) # NoKey
    THEN Return(PublicKeyOf(b.secrets[kid]), NoErr,
                IF b.secrets[kid].kind = "*rsa.PrivateKey" THEN 84 ELSE 86)
    ELSE Return(NoKey, ErrUnexpectedKID, 92)

\* RSAProvideKey with the key lookup ahead of the signing method check
RSAProvideKeyLookupFirst(b, tok) ==
    IF KidIsString(tok) /\ RSAKidKey(b, tok.kid.val).err # NoErr
    THEN RSAKidKey(b, tok.kid.val)
    ELSE IF tok.Method # "*SigningMethodRSA"
         THEN Return(NoKey, ErrUnexpectedSigningMethod, 76)
         ELSE IF KidIsString(tok)
              THEN RSAKidKey(b, tok.kid.val)
              ELSE RSADefaultKey(b)

RSAProvideKey(b, tok) ==
    IF tok.Method # "*SigningMethodRSA"
    THEN Return(NoKey, ErrUnexpectedSigningMethod, 76)
    ELSE IF KidIsString(tok)
         THEN RSAKidKey(b, tok.kid.val)
         ELSE RSADefaultKey(b)

\* secrets offered to NewSecretKeyTokenBackend: an identity and a length
SecretInputs == {[n |-> 1, len |-> MinSecretLength - 1],
                 [n |-> 1, len |-> MinSecretLength],
                 [n |-> 2, len |-> MinSecretLength + 1]}

NewSecretKeyTokenBackend ==
    /\ hmacBackend = NoBackend
    /\ \E s \in SecretInputs :
         IF s.len < MinSecretLength
         THEN /\ keyResult' = [backend |-> "new", key |-> NoKey,
                               err |-> ErrInvalidSecretLength, line |-> 44]
              /\ UNCHANGED hmacBackend
         ELSE /\ hmacBackend' = [kind |-> "secret", secret |-> s.n]
              /\ keyResult' = [backend |-> "new", key |-> NoKey, err |-> NoErr, line |-> 49]
    /\ UNCHANGED <<rsaBackend, token, fetchVars, parseVars, evalVars, optsVars>>

NewRSAKeyTokenBackend ==
    /\ rsaBackend = NoBackend
    /\ \E k \in Stores : rsaBackend' = [kind |-> "rsa", secrets |-> k]
    /\ UNCHANGED <<hmacBackend, token, keyResult, fetchVars, parseVars, evalVars, optsVars>>

SecretKeyTokenBackendProvideKey ==
    /\ hmacBackend # NoBackend
    /\ \E tok \in Tokens :
         /\ token' = tok
         /\ keyResult' = [backend |-> "secret"] @@ SecretProvideKey(hmacBackend, tok)
    /\ UNCHANGED <<hmacBackend, rsaBackend, fetchVars, parseVars, evalVars, optsVars>>

RSAKeyTokenBackendProvideKey ==
    /\ rsaBackend # NoBackend
    /\ \E tok \in Tokens :
         /\ token' = tok
         /\ keyResult' = [backend |-> "rsa"] @@ RSAProvideKey(rsaBackend, tok)
    /\ UNCHANGED <<hmacBackend, rsaBackend, fetchVars, parseVars, evalVars, optsVars>>

(***************************************************************************)
(* pkg/backends/backend.go: FetchKeysURL                                   *)
(***************************************************************************)
ErrHTTPGet == "http.Get error"
ErrJSONUnmarshal == "json.Unmarshal error"
ErrBackendOauthJwksResponseKeysNotFound == "ErrBackendOauthJwksResponseKeysNotFound"
ErrBackendOauthJwksKeysNotFound == "ErrBackendOauthJwksKeysNotFound"
ErrBackendOauthJwksInvalidKey == "ErrBackendOauthJwksInvalidKey"

\* an entry of the keys list as decoded into *oauth2.JwksKey: its key
\* identifier, the outcome of its Validate() and the key GetPublicKey() yields
JwksKeys == [KeyID : {defaultKeyID, "k1", "k2"}, valid : BOOLEAN, n : KeyPairs]
KeyLists == UNION {[1..len -> JwksKeys] : len \in 0..MaxKeys}

\* the response to http.Get(jwks_uri): the transport outcome, the shape of
\* the body and of its "keys" field, and the entries when it is a list
\*   "get_error"   http.Get or the body read fails        (lines 112-120)
\*   "not_json"    the body is no JSON object             (line 123)
\*   "no_keys"     the object has no "keys" field         (line 127)
\*   "null"        "keys": null, decoded as an empty list (line 137)
\*   "not_a_list"  "keys" is no array of objects          (line 137)
\*   "list"        "keys" is an array of key objects
DocShapes == {"get_error", "not_json", "no_keys", "null", "not_a_list", "list"}
Documents == {[shape |-> sh, keys |-> <<>>] : sh \in DocShapes \ {"list"}} \cup
             {[shape |-> "list", keys |-> ks] : ks \in KeyLists}
NoDocument == [shape |-> "none", keys |-> <<>>]

EmptyStore == [id \in {} |-> NoKey]
FetchReturn(store, err) == [called |-> TRUE, isNil |-> FALSE, secrets |-> store, err |-> err]
FetchFail(err) == [called |-> TRUE, isNil |-> TRUE, secrets |-> EmptyStore, err |-> err]
NoFetch == [called |-> FALSE, isNil |-> TRUE, secrets |-> EmptyStore, err |-> NoErr]

\* ImportKeys handing back the entries stored before the invalid one
ImportKeysPartial(keys, i, secrets) ==
    LET firstBad == CHOOSE j \in 1..(Len(keys) + 1) :
                        /\ j = Len(keys) + 1 \/ ~keys[j].valid
                        /\ \A k \in 1..(j - 1) : keys[k].valid
        good == {keys[k].KeyID : k \in 1..(firstBad - 1)}
        store == [id \in good |->
                     LET last == CHOOSE k \in 1..(firstBad - 1) :
                                     /\ keys[k].KeyID = id
                                     /\ \A m \in (k + 1)..(firstBad - 1) : keys[m].KeyID # id
                     IN  RSAPublicKey(keys[last].n)]
    IN  IF firstBad > Len(keys)
        THEN FetchReturn(store, NoErr)
        ELSE FetchReturn(store, ErrBackendOauthJwksInvalidKey)

\* the loop of lines 145-150 from entry i on, secrets being the map so far
RECURSIVE ImportKeys(_, _, _)
ImportKeys(keys, i, secrets) ==
    IF i > Len(keys)
    THEN FetchReturn(secrets, NoErr)
    ELSE IF ~keys[i].valid
         THEN FetchFail(ErrBackendOauthJwksInvalidKey)
         ELSE ImportKeys(keys, i + 1,
                  [id \in DOMAIN secrets \cup {keys[i].KeyID} |->
                      IF id = keys[i].KeyID THEN RSAPublicKey(keys[i].n) ELSE secrets[id]])

\* FetchKeys without the length check of lines 141-143
FetchKeysNoLengthCheck(doc) ==
    CASE doc.shape = "get_error" -> FetchFail(ErrHTTPGet)
      [] doc.shape = "not_json" -> FetchFail(ErrJSONUnmarshal)
      [] doc.shape = "no_keys" -> FetchFail(ErrBackendOauthJwksResponseKeysNotFound)
      [] doc.shape = "not_a_list" -> FetchFail(ErrJSONUnmarshal)
      [] OTHER -> ImportKeys(doc.keys, 1, EmptyStore)

FetchKeys(doc) ==
    CASE doc.shape = "get_error" -> FetchFail(ErrHTTPGet)
      [] doc.shape = "not_json" -> FetchFail(ErrJSONUnmarshal)
      [] doc.shape = "no_keys" -> FetchFail(ErrBackendOauthJwksResponseKeysNotFound)
      [] doc.shape = "not_a_list" -> FetchFail(ErrJSONUnmarshal)
      [] OTHER ->
           IF Len(doc.keys) < 1
           THEN FetchFail(ErrBackendOauthJwksKeysNotFound)
           ELSE ImportKeys(doc.keys, 1, EmptyStore)

\* one import per run, at startup
FetchKeysURL ==
    /\ ~fetchResult.called
    /\ \E doc \in Documents :
         /\ jwksDoc' = doc
         /\ fetchResult' = FetchKeys(doc)
    /\ UNCHANGED <<keyVars, parseVars, evalVars, optsVars>>

(***************************************************************************)
(* The resolvers and the importer as state machines                        *)
(***************************************************************************)
InitKeys ==
    /\ hmacBackend = NoBackend
    /\ rsaBackend = NoBackend
    /\ token = NoToken
    /\ keyResult = NoResult

InitFetch ==
    /\ jwksDoc = NoDocument
    /\ fetchResult = NoFetch

NextResolve ==
    \/ NewSecretKeyTokenBackend
    \/ NewRSAKeyTokenBackend
    \/ SecretKeyTokenBackendProvideKey
    \/ RSAKeyTokenBackendProvideKey

NextImport == FetchKeysURL

(***************************************************************************)
(* Claims about the resolvers (SpecResolve)                                *)
(***************************************************************************)
SecretCall == keyResult.backend = "secret"
RSACall == keyResult.backend = "rsa"
RSAToken == token.Method = "*SigningMethodRSA"
UsableDefault ==
    /\ rsaBackend # NoBackend
    /\ defaultKeyID \in DOMAIN rsaBackend.secrets
    /\ rsaBackend.secrets[defaultKeyID].kind \in {"*rsa.PrivateKey", "*rsa.PublicKey"}

\* C1: a token whose signing method is not of the resolver's family gets no
\* key and ErrUnexpectedSigningMethod from ProvideKey, whatever the kid of
\* its header and whatever the key store holds.
C1_AlgorithmCheckFirst ==
    /\ (SecretCall /\ token.Method # "*SigningMethodHMAC")
          => (keyResult.key = NoKey /\ keyResult.err = ErrUnexpectedSigningMethod)
    /\ (RSACall /\ ~RSAToken)
          => (keyResult.key = NoKey /\ keyResult.err = ErrUnexpectedSigningMethod)

\* an HMAC token naming a kid the store lacks was refused by the RSA resolver
C1_Witness ==
    /\ RSACall
    /\ token.Method = "*SigningMethodHMAC"
    /\ token.kid = StringKid("k2")
    /\ UsableDefault
    /\ keyResult.err = ErrUnexpectedSigningMethod

C3_DefaultOnlyWithoutKid ==
    (RSACall /\ RSAToken) =>
        /\ (keyResult.line \in {99, 101}) => (token.kid = NoKid)
        /\ (token.kid = NoKid /\ ~UsableDefault)
              => (keyResult.key = NoKey /\ keyResult.err = ErrNoRSAKeyFound)

(***************************************************************************)
(* Claims about the importer (SpecImport)                                  *)
(***************************************************************************)
HasInvalidKey ==
    /\ jwksDoc.shape = "list"
    /\ \E i \in DOMAIN jwksDoc.keys : ~jwksDoc.keys[i].valid

\* C4: a key list with an invalid entry at any position makes FetchKeysURL
\* return the invalid-key error and a nil store.
C4_ImportAllOrNothing ==
    (fetchResult.called /\ HasInvalidKey) =>
        /\ fetchResult.err = ErrBackendOauthJwksInvalidKey
        /\ fetchResult.isNil
        /\ fetchResult.secrets = EmptyStore

\* two valid keys around one invalid entry were refused
C4_Witness ==
    /\ fetchResult.called
    /\ Len(jwksDoc.keys) = 3
    /\ jwksDoc.keys[1].valid /\ ~jwksDoc.keys[2].valid /\ jwksDoc.keys[3].valid
    /\ jwksDoc.keys[1].KeyID # jwksDoc.keys[3].KeyID
    /\ fetchResult.err = ErrBackendOauthJwksInvalidKey
    /\ fetchResult.isNil

\* C5: a document without keys field fails with the keys-field-missing
\* error, an empty keys list with the keys-not-found error, and a successful
\* import returns a non-empty store keyed by identifiers of validated keys.
C5_NeverEmptyStore ==
    fetchResult.called =>
        /\ (jwksDoc.shape = "no_keys") =>
              (fetchResult.isNil /\ fetchResult.err = ErrBackendOauthJwksResponseKeysNotFound)
        /\ (jwksDoc.shape = "list" /\ jwksDoc.keys = <<>>) =>
              (fetchResult.isNil /\ fetchResult.err = ErrBackendOauthJwksKeysNotFound)
        /\ (fetchResult.err = NoErr) =>
              /\ ~fetchResult.isNil
              /\ DOMAIN fetchResult.secrets # {}
              /\ \A id \in DOMAIN fetchResult.secrets :
                    \E i \in DOMAIN jwksDoc.keys :
                        jwksDoc.keys[i].KeyID = id /\ jwksDoc.keys[i].valid

C5_Witness ==
    /\ fetchResult.called
    /\ fetchResult.err = NoErr
    /\ Cardinality(DOMAIN fetchResult.secrets) = 2
    /\ Len(jwksDoc.keys) = 3

(***************************************************************************)
(* AccessListEntry: the rule object the parser fills in                    *)
(***************************************************************************)
NewAccessListEntry == [Action |-> "", Claim |-> "", Values |-> <<>>,
                       Methods |-> <<>>, Path |-> ""]
Allow(entry) == [entry EXCEPT !.Action = "allow"]
Deny(entry) == [entry EXCEPT !.Action = "deny"]

\* the outcome of a setter: err = FALSE and the updated entry, or err = TRUE
Set(entry) == [err |-> FALSE, entry |-> entry]
Refuse(entry) == [err |-> TRUE, entry |-> entry]

HTTPMethods == {"get", "post", "put", "patch", "delete", "all"}

SetClaim(entry, s) ==
    IF s = "" THEN Refuse(entry) ELSE Set([entry EXCEPT !.Claim = s])
AddValue(entry, s) ==
    IF s = "" THEN Refuse(entry) ELSE Set([entry EXCEPT !.Values = Append(@, s)])
AddMethod(entry, s) ==
    IF s \notin HTTPMethods THEN Refuse(entry)
    ELSE Set([entry EXCEPT !.Methods = Append(@, s)])
SetPath(entry, s) ==
    IF s = "" THEN Refuse(entry) ELSE Set([entry EXCEPT !.Path = s])

(***************************************************************************)
(* parseCaddyfileTokenValidator                                            *)
(***************************************************************************)
NewAuthProvider == [Context |-> "default", AccessList |-> <<>>,
                    ValidateMethodPath |-> FALSE,
                    ValidateAccessListPathClaim |-> FALSE,
                    TokenValidatorOptions |-> "nil"]
NilHandler == [isNil |-> TRUE, provider |-> NewAuthProvider]
Authentication(provider) == [isNil |-> FALSE, provider |-> provider]

Directive(name, args) == [name |-> name, args |-> args]

\* the state of the loop over the arguments of an allow/deny line: the entry,
\* the mode, whether an argument was refused and whether the line sets
\* p.ValidateMethodPath
RuleStart(rootDirective) ==
    [err |-> FALSE,
     entry |-> IF rootDirective = "allow" THEN Allow(NewAccessListEntry)
               ELSE Deny(NewAccessListEntry),
     mode |-> "roles", methodPath |-> FALSE]

RoleArg(st, arg) ==
    LET r == AddValue(st.entry, arg)
    IN  [st EXCEPT !.err = r.err, !.entry = r.entry]

MethodArg(st, arg) ==
    LET r == AddMethod(st.entry, arg)
    IN  [st EXCEPT !.err = r.err, !.entry = r.entry, !.methodPath = @ \/ ~r.err]

\* PathArg without the "is already set" check of lines 198-200
PathArgOverwrite(st, arg) ==
    LET r == SetPath(st.entry, arg)
    IN  [st EXCEPT !.err = r.err, !.entry = r.entry, !.methodPath = @ \/ ~r.err]

PathArg(st, arg) ==
    IF st.entry.Path # ""
    THEN [st EXCEPT !.err = TRUE]
    ELSE LET r == SetPath(st.entry, arg)
         IN  [st EXCEPT !.err = r.err, !.entry = r.entry, !.methodPath = @ \/ ~r.err]

\* the body of the loop of lines 170-206 for the i-th argument (from 1)
RuleArg(st, i, arg) ==
    IF i = 1
    THEN LET r == SetClaim(st.entry, arg)
         IN  [st EXCEPT !.err = r.err, !.entry = r.entry]
    ELSE CASE arg = "with" -> [st EXCEPT !.mode = "method"]
           [] arg = "to" -> [st EXCEPT !.mode = "path"]
           [] OTHER ->
                CASE st.mode = "roles" -> RoleArg(st, arg)
                  [] st.mode = "method" -> MethodArg(st, arg)
                  [] OTHER -> PathArg(st, arg)

RECURSIVE RuleArgs(_, _, _)
RuleArgs(args, i, st) ==
    IF i > Len(args) \/ st.err
    THEN st
    ELSE RuleArgs(args, i + 1, RuleArg(st, i, args[i]))

Parsing == pc = "parsing"

\* every return nil, err of the parser
ParseError ==
    /\ pc' = "error"
    /\ handler' = NilHandler
    /\ UNCHANGED <<p, defaultDenyACL>>

ParseAllowDeny(rootDirective, args) ==
    /\ Parsing
    /\ consumed' = Append(consumed, Directive(rootDirective, args))
    /\ IF Len(args) = 0 \/ Len(args) = 1
       THEN ParseError
       ELSE LET st == RuleArgs(args, 1, RuleStart(rootDirective))
            IN  IF st.err
                THEN ParseError
                ELSE /\ p' = [p EXCEPT !.AccessList = Append(@, st.entry),
                                       !.ValidateMethodPath = @ \/ st.methodPath]
                     /\ UNCHANGED <<defaultDenyACL, pc, handler>>
    /\ UNCHANGED <<keyVars, fetchVars, evalVars, optsVars>>

\* DefaultValue with any other value than "allow" restoring the default
DefaultValueLastWins(deny, val) == val # "allow"

\* lines 257-259: the value of defaultDenyACL after "default <val>"
DefaultValue(deny, val) == IF val = "allow" THEN FALSE ELSE deny

ParseDefault(args) ==
    /\ Parsing
    /\ consumed' = Append(consumed, Directive("default", args))
    /\ IF Len(args) = 0
       THEN ParseError
       ELSE /\ defaultDenyACL' = DefaultValue(defaultDenyACL, args[1])
            /\ UNCHANGED <<p, pc, handler>>
    /\ UNCHANGED <<keyVars, fetchVars, evalVars, optsVars>>

ParseContext(args) ==
    /\ Parsing
    /\ consumed' = Append(consumed, Directive("context", args))
    /\ IF Len(args) # 1
       THEN ParseError
       ELSE /\ p' = [p EXCEPT !.Context = args[1]]
            /\ UNCHANGED <<defaultDenyACL, pc, handler>>
    /\ UNCHANGED <<keyVars, fetchVars, evalVars, optsVars>>

ParseValidate(args) ==
    /\ Parsing
    /\ consumed' = Append(consumed, Directive("validate", args))
    /\ IF Len(args) = 0 \/ args[1] # "path_acl"
       THEN ParseError
       ELSE /\ p' = [p EXCEPT !.ValidateAccessListPathClaim = TRUE,
                              !.ValidateMethodPath = TRUE]
            /\ UNCHANGED <<defaultDenyACL, pc, handler>>
    /\ UNCHANGED <<keyVars, fetchVars, evalVars, optsVars>>

ParseOption(args) ==
    /\ Parsing
    /\ consumed' = Append(consumed, Directive("option", args))
    /\ IF Len(args) = 0 \/ args[1] # "validate_bearer_header"
       THEN ParseError
       ELSE /\ p' = [p EXCEPT !.TokenValidatorOptions = "ValidateBearerHeader"]
            /\ UNCHANGED <<defaultDenyACL, pc, handler>>
    /\ UNCHANGED <<keyVars, fetchVars, evalVars, optsVars>>

ParseUnsupported(rootDirective) ==
    /\ Parsing
    /\ consumed' = Append(consumed, Directive(rootDirective, <<>>))
    /\ ParseError
    /\ UNCHANGED <<keyVars, fetchVars, evalVars, optsVars>>

\* CatchAllEntry matching the literal role "*" instead of "any"
CatchAllEntryStar == [Action |-> "allow", Claim |-> "roles", Values |-> <<"*">>,
                      Methods |-> <<>>, Path |-> ""]

\* lines 276-280
CatchAllEntry == [Action |-> "allow", Claim |-> "roles", Values |-> <<"any">>,
                  Methods |-> <<>>, Path |-> ""]

\* the end of the directive block: lines 271-288
Finish ==
    /\ Parsing
    /\ IF p.Context = ""
       THEN /\ ParseError
       ELSE /\ p' = IF ~defaultDenyACL
                    THEN [p EXCEPT !.AccessList = Append(@, CatchAllEntry)]
                    ELSE p
            /\ handler' = Authentication(p')
            /\ pc' = "done"
            /\ UNCHANGED defaultDenyACL
    /\ UNCHANGED <<consumed, keyVars, fetchVars, evalVars, optsVars>>

InitParse ==
    /\ p = NewAuthProvider
    /\ defaultDenyACL = TRUE
    /\ pc = "parsing"
    /\ consumed = <<>>
    /\ handler = NilHandler

(***************************************************************************)
(* Access list evaluation (spec.md 4.4)                                    *)
(***************************************************************************)
\* claim sets of a verified token: claim name -> set of values
ClaimSets == {[c \in {} |-> {}],
              [c \in {"roles"} |-> {"admin"}],
              [c \in {"roles"} |-> {"guest"}],
              [c \in {"org"} |-> {"admin"}]}
Requests == {[method |-> "get", path |-> "/a"], [method |-> "post", path |-> "/b"]}
EvalInputs == [claims : ClaimSets, request : Requests,
               matchAll : BOOLEAN, allowMatchAll : BOOLEAN]
NoEvalInput == [claims |-> [c \in {} |-> {}], request |-> [method |-> "", path |-> ""],
                matchAll |-> FALSE, allowMatchAll |-> FALSE]

Range(seq) == {seq[i] : i \in DOMAIN seq}

\* the contextual (method/path) test of a rule
ContextMatches(rule, in, provider) ==
    IF provider.ValidateMethodPath /\ (rule.Methods # <<>> \/ rule.Path # "")
    THEN /\ rule.Methods = <<>> \/ in.request.method \in Range(rule.Methods)
                                \/ "all" \in Range(rule.Methods)
         /\ rule.Path = "" \/ rule.Path = in.request.path
         /\ (provider.ValidateAccessListPathClaim /\ rule.Path # "") =>
               ("path" \in DOMAIN in.claims /\ in.request.path \in in.claims["path"])
    ELSE TRUE

\* the claim test of a rule
ClaimMatches(rule, in) ==
    \/ /\ rule.Claim \in DOMAIN in.claims
       /\ in.claims[rule.Claim] \cap Range(rule.Values) # {}
    \/ "any" \in Range(rule.Values)
    \/ /\ in.allowMatchAll
       /\ rule.Claim \in DOMAIN in.claims
       /\ "any" \in in.claims[rule.Claim]

RuleMatches(rule, in, provider) ==
    ContextMatches(rule, in, provider) /\ ClaimMatches(rule, in)

Evaluate(in, provider) ==
    LET acl == provider.AccessList
        hits == {i \in DOMAIN acl : RuleMatches(acl[i], in, provider)}
    IN  IF hits = {}
        THEN "Deny"
        ELSE IF in.matchAll
             THEN IF \E i \in hits : acl[i].Action = "deny" THEN "Deny" ELSE "Allow"
             ELSE LET first == CHOOSE i \in hits : \A j \in hits : i <= j
                  IN  IF acl[first].Action = "allow" THEN "Allow" ELSE "Deny"

Authorize ==
    /\ pc = "done"
    /\ \E in \in EvalInputs :
         /\ evalInput' = in
         /\ decision' = Evaluate(in, handler.provider)
    /\ UNCHANGED <<keyVars, fetchVars, parseVars, optsVars>>

InitEval ==
    /\ evalInput = NoEvalInput
    /\ decision = "none"

(***************************************************************************)
(* The configurations fed to the parser                                    *)
(***************************************************************************)
\* SpecRule: an allow/deny line of any shape over ArgTokens, after at most
\* MaxPrefix well-formed rules
ArgTokens == {"roles", "admin", "with", "to", "get", "/a", ""}
ArgLines == UNION {[1..len -> ArgTokens] : len \in 0..MaxArgs}
PlainRule == <<"roles", "admin">>
ScopedRule == <<"roles", "guest", "with", "get", "to", "/a">>

AfterPlainRules ==
    /\ Len(consumed) <= MaxPrefix
    /\ \A i \in DOMAIN consumed : consumed[i].args = PlainRule

NextRule ==
    \/ /\ Parsing
       /\ AfterPlainRules
       /\ \E d \in {"allow", "deny"}, args \in ArgLines : ParseAllowDeny(d, args)
    \/ Finish

\* SpecList: configurations of at most MaxDirectives short directives
MoreDirectives == Len(consumed) < MaxDirectives

NextList ==
    \/ MoreDirectives /\ ParseAllowDeny("allow", PlainRule)
    \/ MoreDirectives /\ ParseAllowDeny("deny", ScopedRule)
    \/ \E args \in {<<"allow">>, <<"deny">>, <<>>} : MoreDirectives /\ ParseDefault(args)
    \/ \E args \in {<<"">>, <<>>} : MoreDirectives /\ ParseContext(args)
    \/ \E args \in {<<"path_acl">>, <<"acl">>} : MoreDirectives /\ ParseValidate(args)
    \/ \E args \in {<<"validate_bearer_header">>, <<>>} : MoreDirectives /\ ParseOption(args)
    \/ MoreDirectives /\ ParseUnsupported("permit")
    \/ Finish
    \/ Authorize

(***************************************************************************)
(* TokenValidatorOptions                                                   *)
(***************************************************************************)
\* Metadata is a Go map, a reference: an address into heap, NilMap for nil
NilMap == 0
MetaKeys == {"a", "b"}
EmptyMap == [k \in {} |-> ""]

ValidationFlags == {"ValidateSourceAddress", "ValidateBearerHeader", "ValidateMethodPath",
                    "ValidateAccessListPathClaim", "ValidateAllowMatchAll"}

Options(flags, addr, meta, replacer, logger) ==
    [ValidateSourceAddress |-> flags["ValidateSourceAddress"],
     SourceAddress |-> addr,
     ValidateBearerHeader |-> flags["ValidateBearerHeader"],
     ValidateMethodPath |-> flags["ValidateMethodPath"],
     ValidateAccessListPathClaim |-> flags["ValidateAccessListPathClaim"],
     ValidateAllowMatchAll |-> flags["ValidateAllowMatchAll"],
     Metadata |-> meta, Replacer |-> replacer, Logger |-> logger]

\* Clone handing the clone the Metadata map of the original
CloneShared(opts, fresh) ==
    [ValidateSourceAddress |-> opts.ValidateSourceAddress,
     SourceAddress |-> "",
     ValidateBearerHeader |-> opts.ValidateBearerHeader,
     ValidateMethodPath |-> opts.ValidateMethodPath,
     ValidateAccessListPathClaim |-> opts.ValidateAccessListPathClaim,
     ValidateAllowMatchAll |-> opts.ValidateAllowMatchAll,
     Metadata |-> opts.Metadata, Replacer |-> "nil", Logger |-> opts.Logger]

\* lines 47-58, fresh being the address of the map make() allocates
Clone(opts, fresh) ==
    [ValidateSourceAddress |-> opts.ValidateSourceAddress,
     SourceAddress |-> "",
     ValidateBearerHeader |-> opts.ValidateBearerHeader,
     ValidateMethodPath |-> opts.ValidateMethodPath,
     ValidateAccessListPathClaim |-> opts.ValidateAccessListPathClaim,
     ValidateAllowMatchAll |-> opts.ValidateAllowMatchAll,
     Metadata |-> fresh, Replacer |-> "nil", Logger |-> opts.Logger]

NoOp == [op |-> "none", obj |-> 0]

\* the options object every run starts with: any flags, Metadata nil or a map
InitOpts ==
    /\ \E flags \in [ValidationFlags -> BOOLEAN], meta \in {NilMap, 1} :
          /\ objs = <<Options(flags, "10.0.0.1", meta, "replacer", "logger")>>
          /\ heap = IF meta = NilMap THEN <<>> ELSE <<EmptyMap>>
    /\ optsOp = NoOp

CloneOptions ==
    /\ Len(objs) <= MaxClones
    /\ \E i \in DOMAIN objs :
         /\ heap' = Append(heap, EmptyMap)
         /\ objs' = Append(objs, Clone(objs[i], Len(heap) + 1))
         /\ optsOp' = [op |-> "clone", obj |-> i]
    /\ UNCHANGED <<keyVars, fetchVars, parseVars, evalVars>>

\* opts.Metadata[k] = "v" on an object whose map is not nil
WriteMetadata ==
    /\ \E i \in DOMAIN objs, k \in MetaKeys :
         /\ objs[i].Metadata # NilMap
         /\ heap' = [heap EXCEPT ![objs[i].Metadata] =
                        [x \in DOMAIN @ \cup {k} |-> "v"]]
         /\ optsOp' = [op |-> "write", obj |-> i]
    /\ UNCHANGED <<objs, keyVars, fetchVars, parseVars, evalVars>>

NextOpts == CloneOptions \/ WriteMetadata

(***************************************************************************)
(* Specifications                                                          *)
(***************************************************************************)
\* no options object exists yet
NoOpts ==
    /\ objs = <<>>
    /\ heap = <<>>
    /\ optsOp = NoOp

InitIdle == InitKeys /\ InitFetch /\ InitParse /\ InitEval
Init == InitIdle /\ NoOpts

SpecResolve == Init /\ [][NextResolve]_vars
SpecImport == Init /\ [][NextImport]_vars
SpecRule == Init /\ [][NextRule]_vars
SpecList == Init /\ [][NextList]_vars
InitOptions == InitIdle /\ InitOpts
SpecOpts == InitOptions /\ [][NextOpts]_vars

(***************************************************************************)
(* Claims about the parser (SpecRule, SpecList)                            *)
(***************************************************************************)
IsRuleDirective(d) == d.name \in {"allow", "deny"}
RuleDirectives == SelectSeq(consumed, IsRuleDirective)
BuiltAccessList == handler.provider.AccessList

\* C6: every rule of the access list of a built provider has a non-empty
\* claim and at least one value.
C6_RulesHaveClaimAndValue ==
    (pc = "done") =>
        \A i \in DOMAIN BuiltAccessList :
            /\ BuiltAccessList[i].Claim # ""
            /\ Len(BuiltAccessList[i].Values) >= 1

\* the i-th argument of an allow/deny line is read in mode "path": it is no
\* keyword and the last keyword before it is "to"
PathModeArg(args, i) ==
    /\ i \in 2..Len(args)
    /\ args[i] \notin {"with", "to"}
    /\ \E k \in 2..(i - 1) :
          /\ args[k] = "to"
          /\ \A m \in (k + 1)..(i - 1) : args[m] # "with"
SecondPathArg(args) ==
    \E i, j \in DOMAIN args : i < j /\ PathModeArg(args, i) /\ PathModeArg(args, j)

\* C9: an allow/deny line with a second path argument makes the parser fail:
\* it is the last directive read, and the parser returns an error and no
\* handler, so neither that rule nor the rules before it reach a provider.
C9_SecondPathIsFatal ==
    \A n \in DOMAIN consumed :
        (IsRuleDirective(consumed[n]) /\ SecondPathArg(consumed[n].args)) =>
            /\ pc = "error"
            /\ handler = NilHandler
            /\ n = Len(consumed)

\* a rule was accepted, then a line with a value and two paths was refused
C9_Witness ==
    /\ Len(consumed) = 2
    /\ consumed[1] = Directive("allow", PlainRule)
    /\ consumed[2] = Directive("deny", <<"roles", "admin", "to", "/a", "get">>)
    /\ Len(p.AccessList) = 1
    /\ pc = "error"
    /\ handler.isNil

DefaultAllowParsed ==
    \E i \in DOMAIN consumed :
        /\ consumed[i].name = "default"
        /\ Len(consumed[i].args) >= 1
        /\ consumed[i].args[1] = "allow"

\* C10: the access list of the built provider has one entry per allow/deny
\* directive, in the order of the directives, followed by the catch-all
\* entry (allow, "roles", "any") exactly when some "default allow" was read,
\* whatever "default" directives follow it.
C10_AccessListShape ==
    (pc = "done") =>
        LET n == Len(RuleDirectives)
        IN  /\ Len(BuiltAccessList) = n + (IF DefaultAllowParsed THEN 1 ELSE 0)
            /\ \A i \in 1..n :
                  /\ BuiltAccessList[i].Action = RuleDirectives[i].name
                  /\ BuiltAccessList[i].Claim = RuleDirectives[i].args[1]
                  /\ BuiltAccessList[i].Values[1] = RuleDirectives[i].args[2]
            /\ DefaultAllowParsed =>
                  BuiltAccessList[n + 1] =
                      [Action |-> "allow", Claim |-> "roles", Values |-> <<"any">>,
                       Methods |-> <<>>, Path |-> ""]

\* deny, allow, "default allow", "default deny": two rules and the catch-all
C10_Witness ==
    /\ pc = "done"
    /\ consumed = <<Directive("deny", ScopedRule), Directive("allow", PlainRule),
                    Directive("default", <<"allow">>), Directive("default", <<"deny">>)>>
    /\ Len(BuiltAccessList) = 3
    /\ BuiltAccessList[1].Action = "deny"

Evaluated == pc = "done" /\ decision # "none"
NoEarlierRuleMatches ==
    \A i \in 1..(Len(BuiltAccessList) - 1) :
        ~RuleMatches(BuiltAccessList[i], evalInput, handler.provider)

\* C7: with "default allow" in the configuration, a claim set that matches
\* none of the configured rules is allowed, the empty claim set and claim
\* sets without "roles" included.
C7_DefaultAllowWidens ==
    (Evaluated /\ DefaultAllowParsed /\ NoEarlierRuleMatches) => decision = "Allow"

\* the empty claim set passed two rules and was allowed by the catch-all
C7_Witness ==
    /\ Evaluated
    /\ DefaultAllowParsed
    /\ Len(BuiltAccessList) = 3
    /\ NoEarlierRuleMatches
    /\ DOMAIN evalInput.claims = {}
    /\ decision = "Allow"

(***************************************************************************)
(* Claims about TokenValidatorOptions.Clone (SpecOpts)                     *)
(***************************************************************************)
\* what Metadata of object i holds
MetadataOf(os, hp, i) ==
    IF os[i].Metadata = NilMap
    THEN [isNil |-> TRUE, content |-> EmptyMap]
    ELSE [isNil |-> FALSE, content |-> hp[os[i].Metadata]]

SameFlags(a, b) ==
    /\ a.ValidateSourceAddress = b.ValidateSourceAddress
    /\ a.ValidateBearerHeader = b.ValidateBearerHeader
    /\ a.ValidateMethodPath = b.ValidateMethodPath
    /\ a.ValidateAccessListPathClaim = b.ValidateAccessListPathClaim
    /\ a.ValidateAllowMatchAll = b.ValidateAllowMatchAll

C8_Step ==
    /\ (Len(objs') = Len(objs) + 1) =>
          LET new == objs'[Len(objs')]
          IN  /\ SameFlags(new, objs[optsOp'.obj])
              /\ new.Metadata # NilMap
              /\ \A j \in DOMAIN objs : objs[j].Metadata # new.Metadata
              /\ heap'[new.Metadata] = EmptyMap
              /\ \A j \in DOMAIN objs :
                    /\ objs'[j] = objs[j]
                    /\ MetadataOf(objs', heap', j) = MetadataOf(objs, heap, j)
    /\ (Len(objs') = Len(objs) /\ optsOp'.op = "write") =>
          \A j \in DOMAIN objs \ {optsOp'.obj} :
              /\ objs'[j] = objs[j]
              /\ MetadataOf(objs', heap', j) = MetadataOf(objs, heap, j)

\* C8: a clone has the five validation flags of the object it is cloned
\* from and a fresh, empty Metadata map that no other object refers to, and
\* a write to the Metadata of one object changes no other object.
C8_CloneDoesNotAlias == [][C8_Step]_vars

\* the first clone's Metadata was written; the original and the second
\* clone still hold empty maps
C8_Witness ==
    /\ Len(objs) = 3
    /\ optsOp = [op |-> "write", obj |-> 2]
    /\ objs[1].Metadata # NilMap
    /\ heap[objs[1].Metadata] = EmptyMap
    /\ DOMAIN heap[objs[2].Metadata] = {"a", "b"}
    /\ heap[objs[3].Metadata] = EmptyMap
    /\ objs[2].ValidateBearerHeader /\ objs[1].ValidateBearerHeader

====
